---------------------------- MODULE Spec2Model ----------------------------
(***************************************************************************)
(* Driving exam statistics: CSV importer (services/csv_importer.py) and    *)
(* SQLite store (services/database.py), with the filter construction of    *)
(* the main window (ui/main_window_ui.py).                                 *)
(*                                                                         *)
(* Texts are TLA+ strings; a character is a string of length one.  A file  *)
(* is the list of rows that _read_rows returns (a row is a list of cells). *)
(* The store is the pair of tables driving_exams (exams, in rowid order)   *)
(* and imported_periods (ledger).                                          *)
(***************************************************************************)
EXTENDS Integers, Sequences, FiniteSets, Bags, TLC

VARIABLES exams, ledger, last

vars == <<exams, ledger, last>>

(***************************************************************************)
(* Bounds of the model.                                                    *)
(***************************************************************************)
MaxRows == 2       \* data rows per input file
MaxStored == 3     \* rows in driving_exams

(***************************************************************************)
(* Text primitives (Python str, SQLite TEXT).                              *)
(***************************************************************************)
Ch(s, i) == SubSeq(s, i, i)

\* The characters of the model in ASCII order (SQLite BINARY collation).
Ascii == "\t %+,-./0123456789ABCDEFGHIJKLMNOPQRSTUVWXYZ_abcdefghijklmnopqrstuvwxyz"

Code(c) == CHOOSE i \in 1..Len(Ascii) : Ch(Ascii, i) = c

UpperCase == "ABCDEFGHIJKLMNOPQRSTUVWXYZ"
LowerCase == "abcdefghijklmnopqrstuvwxyz"

LowerChar(c) ==
    IF \E i \in 1..26 : Ch(UpperCase, i) = c
    THEN Ch(LowerCase, CHOOSE i \in 1..26 : Ch(UpperCase, i) = c)
    ELSE c

RECURSIVE lower(_)
lower(s) == IF s = "" THEN "" ELSE LowerChar(Ch(s, 1)) \o lower(SubSeq(s, 2, Len(s)))

IsSpace(c) == c \in {" ", "\t"}

RECURSIVE lstrip(_)
lstrip(s) ==
    IF s # "" /\ IsSpace(Ch(s, 1)) THEN lstrip(SubSeq(s, 2, Len(s))) ELSE s

RECURSIVE rstrip(_)
rstrip(s) ==
    IF s # "" /\ IsSpace(Ch(s, Len(s))) THEN rstrip(SubSeq(s, 1, Len(s) - 1)) ELSE s

strip(s) == rstrip(lstrip(s))

\* str.replace(c, "")
RECURSIVE remove(_, _)
remove(s, c) ==
    IF s = "" THEN ""
    ELSE (IF Ch(s, 1) = c THEN "" ELSE Ch(s, 1)) \o remove(SubSeq(s, 2, Len(s)), c)

\* "needle in s"
contains(s, needle) ==
    \E i \in 1..(Len(s) - Len(needle) + 1) : SubSeq(s, i, i + Len(needle) - 1) = needle

Digits == "0123456789"

IsDigit(c) == \E i \in 1..10 : Ch(Digits, i) = c

DigitValue(c) == (CHOOSE i \in 1..10 : Ch(Digits, i) = c) - 1

\* Python int(): digits, with single underscores allowed between digits.
IsDigitString(s) ==
    /\ s # ""
    /\ IsDigit(Ch(s, 1))
    /\ IsDigit(Ch(s, Len(s)))
    /\ \A i \in 1..Len(s) : IsDigit(Ch(s, i)) \/ Ch(s, i) = "_"
    /\ \A i \in 1..(Len(s) - 1) : ~(Ch(s, i) = "_" /\ Ch(s, i + 1) = "_")

RECURSIVE DigitsValue(_)
DigitsValue(s) ==
    IF s = "" THEN 0
    ELSE IF Ch(s, Len(s)) = "_" THEN DigitsValue(SubSeq(s, 1, Len(s) - 1))
    ELSE 10 * DigitsValue(SubSeq(s, 1, Len(s) - 1)) + DigitValue(Ch(s, Len(s)))

IsIntLiteral(s) ==
    IF s # "" /\ Ch(s, 1) \in {"+", "-"}
    THEN IsDigitString(SubSeq(s, 2, Len(s)))
    ELSE IsDigitString(s)

IntValue(s) ==
    IF Ch(s, 1) = "-" THEN 0 - DigitsValue(SubSeq(s, 2, Len(s)))
    ELSE IF Ch(s, 1) = "+" THEN DigitsValue(SubSeq(s, 2, Len(s)))
    ELSE DigitsValue(s)

(***************************************************************************)
(* csv_importer.py                                                         *)
(***************************************************************************)
_to_int(value) ==
    LET t == strip(remove(remove(value, "."), ","))
    IN  IF IsIntLiteral(t) THEN IntValue(t) ELSE 0

_normalize_header(value) == lower(strip(value))

\* "[_normalize_header(h) for h in rows[0]]"
RECURSIVE normalize_all(_)
normalize_all(cells) ==
    IF cells = <<>> THEN <<>>
    ELSE <<_normalize_header(Head(cells))>> \o normalize_all(Tail(cells))

\* index = {name: idx for idx, name in enumerate(header)}: the last column
\* of a name wins; 0 when the name is not a key.
index(header, name) ==
    IF \E i \in 1..Len(header) : header[i] = name
    THEN CHOOSE i \in 1..Len(header) :
            /\ header[i] = name
            /\ \A j \in 1..Len(header) : header[j] = name => j <= i
    ELSE 0

RECURSIVE get(_, _, _)
get(header, row, keys) ==
    IF keys = <<>> THEN ""
    ELSE LET i == index(header, Head(keys))
         IN  IF i # 0 /\ i <= Len(row) THEN strip(row[i])
             ELSE get(header, row, Tail(keys))

\* The tuple that parse_rows builds of one data row.
parse_row(header, r) ==
    << get(header, r, <<"desc_provincia", "provincia">>),
       get(header, r, <<"centro_examen", "centro">>),
       get(header, r, <<"codigo_autoescuela", "cod_autoescuela">>),
       get(header, r, <<"nombre_autoescuela", "autoescuela">>),
       get(header, r, <<"codigo_seccion", "seccion">>),
       _to_int(get(header, r, <<"mes">>)),
       _to_int(get(header, r, <<"anyo", "anio", "year">>)),
       get(header, r, <<"tipo_examen">>),
       get(header, r, <<"nombre_permiso", "permiso">>),
       _to_int(get(header, r, <<"num_aptos", "aptos">>)),
       _to_int(get(header, r, <<"num_aptos_1conv">>)),
       _to_int(get(header, r, <<"num_aptos_2conv">>)),
       _to_int(get(header, r, <<"num_aptos_3o4conv">>)),
       _to_int(get(header, r, <<"num_aptos_5_o_mas_conv">>)),
       _to_int(get(header, r, <<"num_no_aptos", "no_aptos">>)) >>

\* "if not r or len(r) < 5: continue"
row_too_short(r) == r = <<>> \/ Len(r) < 5

row_incomplete_month_unchecked(t) == t[1] = "" \/ t[2] = "" \/ t[7] = 0

\* "if not province or not exam_center or not year or not month: continue"
row_incomplete(t) == t[1] = "" \/ t[2] = "" \/ t[7] = 0 \/ t[6] = 0

RECURSIVE parse_loop(_, _)
parse_loop(header, data_rows) ==
    IF data_rows = <<>> THEN <<>>
    ELSE LET r == Head(data_rows)
             rest == parse_loop(header, Tail(data_rows))
         IN  IF row_too_short(r) THEN rest
             ELSE IF row_incomplete(parse_row(header, r)) THEN rest
             ELSE <<parse_row(header, r)>> \o rest

period_of(t) == <<t[7], t[6]>>

\* parse_rows: [error, rows, periods]; error is "" on a normal return and
\* "IndexError" when header[0] is evaluated on an empty first row.
parse_rows(rows) ==
    IF rows = <<>> THEN [error |-> "", rows |-> <<>>, periods |-> {}]
    ELSE IF rows[1] = <<>> THEN [error |-> "IndexError", rows |-> <<>>, periods |-> {}]
    ELSE LET header == normalize_all(rows[1])
             data_rows == IF contains(header[1], "provincia") \/ contains(header[1], "desc_provincia")
                          THEN Tail(rows) ELSE rows
             parsed == parse_loop(header, data_rows)
         IN  [error |-> "", rows |-> parsed,
              periods |-> {period_of(parsed[i]) : i \in 1..Len(parsed)}]

(***************************************************************************)
(* Input files.                                                            *)
(***************************************************************************)
Header == <<"provincia", "centro", "mes", "anyo", "tipo_examen", "num_aptos", "num_no_aptos">>
HeaderAlias == <<" DESC_PROVINCIA", "Centro_Examen", "MES", "anio", "tipo_examen", "aptos", "no_aptos">>

\* Data rows of the files given to import_csv: two periods, two rows of one
\* period, a row without province and a row whose month does not parse.
ImportRows ==
    { <<"Madrid", "Mostoles", "1", "2023", "TEORICO", "1.234", "N/D">>,
      <<"Valladolid", "Medina", "1", "2023", "PRACTICO", "5", "2">>,
      <<"Madrid", " Alcala ", "2", "2023", "TEORICO", "3", "4">>,
      <<"", "Mostoles", "2", "2023", "TEORICO", "1", "1">>,
      <<"Madrid", "Mostoles", "N/D", "2023", "TEORICO", "1", "1">> }

\* Further data rows of the files given to parse_rows.
DataRows ==
    ImportRows \cup
    { <<"Madrid", "Mostoles", "13", "2023", "TEORICO", "-5", "1">>,
      <<"Madrid", "Mostoles", "1", "-2.023", "TEORICO", "1_0", "+7">>,
      <<"Madrid", "\t ", " 12 ", "2,023", "", "1 0", "">>,
      <<"Madrid", "Mostoles", "1">> }

RowSeqs(S) == UNION { [1..n -> S] : n \in 0..MaxRows }

\* Files without a line, with an empty first line, without a header line.
OddFiles ==
    {<<>>, << <<>> >>} \cup { d \in RowSeqs(ImportRows) : Len(d) = 1 }

ImportFiles == OddFiles \cup { <<Header>> \o d : d \in RowSeqs(ImportRows) }

Files ==
    ImportFiles
      \cup { <<Header>> \o d : d \in RowSeqs(DataRows) }
      \cup { <<HeaderAlias>> \o d : d \in RowSeqs(ImportRows) }

\* parse_rows of every input file of the model, tabulated once (@@ makes the
\* table an explicit function).
ParseTable == [f \in Files |-> parse_rows(f)] @@ <<>>

(***************************************************************************)
(* database.py: the tables and the write operations.                      *)
(***************************************************************************)
\* The column list of the INSERT statement, bound to the tuple by position.
to_record(t) ==
    [province |-> t[1], exam_center |-> t[2], driving_school_code |-> t[3],
     driving_school_name |-> t[4], section_code |-> t[5], month |-> t[6],
     year |-> t[7], exam_type |-> t[8], permit_name |-> t[9], passed |-> t[10],
     passed_1conv |-> t[11], passed_2conv |-> t[12], passed_3or4conv |-> t[13],
     passed_5plus |-> t[14], failed |-> t[15]]

RECURSIVE to_records(_)
to_records(rows) ==
    IF rows = <<>> THEN <<>> ELSE <<to_record(Head(rows))>> \o to_records(Tail(rows))

insert_rows_replacing(table, rows) == to_records(rows)

\* driving_exams after insert_rows(rows); the rowcount returned is Len(rows).
insert_rows(table, rows) == table \o to_records(rows)

\* imported_periods is a bag of <<year, month>> rows (the id column is not read).
is_period_imported_never(periods_table, year, month) == FALSE

\* SELECT 1 FROM imported_periods WHERE year = ? (the month is not compared).
is_period_imported_any_month(periods_table, year, month) ==
    \E p \in BagToSet(periods_table) : p[1] = year

is_period_imported(periods_table, year, month) == BagIn(<<year, month>>, periods_table)

mark_periods_imported_lost(periods_table, periods) == periods_table

\* INSERT without OR IGNORE into a table without the UNIQUE constraint.
mark_periods_imported_duplicating(periods_table, periods) ==
    periods_table (+) SetToBag(periods)

\* INSERT OR IGNORE under UNIQUE(year, month), one period after the other.
RECURSIVE mark_periods_imported(_, _)
mark_periods_imported(periods_table, periods) ==
    IF periods = {} THEN periods_table
    ELSE LET p == CHOOSE q \in periods : TRUE
             t == IF BagIn(p, periods_table) THEN periods_table
                  ELSE periods_table (+) SetToBag({p})
         IN  mark_periods_imported(t, periods \ {p})

(***************************************************************************)
(* csv_importer.py: import_csv                                             *)
(***************************************************************************)
\* The loop with year and month exchanged in the call of is_period_imported.
RECURSIVE select_rows_swapped(_, _)
select_rows_swapped(rows, periods_table) ==
    IF rows = <<>> THEN <<>>
    ELSE IF is_period_imported(periods_table, Head(rows)[6], Head(rows)[7])
         THEN select_rows_swapped(Tail(rows), periods_table)
         ELSE <<Head(rows)>> \o select_rows_swapped(Tail(rows), periods_table)

\* The loop of import_csv over the parsed rows: the rows to insert.
RECURSIVE select_rows(_, _)
select_rows(rows, periods_table) ==
    IF rows = <<>> THEN <<>>
    ELSE LET row == Head(rows)
             year == row[7]
             month == row[6]
             rest == select_rows(Tail(rows), periods_table)
         IN  IF is_period_imported(periods_table, year, month) THEN rest
             ELSE <<row>> \o rest

\* The set built with the fields of the row in the order of the tuple.
periods_of_rows_month_first(rows) == { <<rows[i][6], rows[i][7]>> : i \in 1..Len(rows) }

periods_of_rows(rows) == { <<rows[i][7], rows[i][6]>> : i \in 1..Len(rows) }

NoDataRows == "No data rows found in the file"
AllImported == "All periods in this file were already imported"
Interrupted == "interrupted"

import_csv_error_unchecked_rows(rows, to_insert) == AllImported

\* The ValueError of import_csv when it has nothing to insert: "if not rows"
\* is tested before the loop, "if not to_insert" after it.
import_csv_error(rows, to_insert) ==
    IF rows = <<>> THEN NoDataRows ELSE AllImported

None == <<>>
NoFilters ==
    [province |-> None, exam_center |-> None, driving_school |-> None,
     exam_type |-> None, permit |-> None, from_ym |-> None, to_ym |-> None]

(***************************************************************************)
(* database.py: the read operations.                                       *)
(***************************************************************************)
Some(v) == <<v>>

\* BINARY collation: a < b, character by character.
RECURSIVE text_lt(_, _)
text_lt(a, b) ==
    IF b = "" THEN FALSE
    ELSE IF a = "" THEN TRUE
    ELSE IF Ch(a, 1) = Ch(b, 1) THEN text_lt(SubSeq(a, 2, Len(a)), SubSeq(b, 2, Len(b)))
    ELSE Code(Ch(a, 1)) < Code(Ch(b, 1))

\* SQLite "s LIKE pattern": % is any text, _ is any character, letters match
\* without case.
RECURSIVE like_match(_, _)
like_match(s, pattern) ==
    IF pattern = "" THEN s = ""
    ELSE IF Ch(pattern, 1) = "%"
         THEN \E k \in 0..Len(s) :
                like_match(SubSeq(s, k + 1, Len(s)), SubSeq(pattern, 2, Len(pattern)))
    ELSE IF s = "" THEN FALSE
    ELSE /\ Ch(pattern, 1) = "_" \/ LowerChar(Ch(pattern, 1)) = LowerChar(Ch(s, 1))
         /\ like_match(SubSeq(s, 2, Len(s)), SubSeq(pattern, 2, Len(pattern)))

\* The texts of the text columns of the parsed rows, and the LIKE patterns of
\* the filter texts, of the model; like_match tabulated over them.
StoredTexts ==
    UNION { { ParseTable[f].rows[i][k] : i \in 1..Len(ParseTable[f].rows), k \in {1, 2, 4, 8, 9} } :
            f \in Files }

FilterTexts == {"", "All", "mad", "_a", "teor"}

LikeTable ==
    [x \in StoredTexts \X { "%" \o v \o "%" : v \in FilterTexts } |-> like_match(x[1], x[2])]
        @@ <<>>

like(s, pattern) ==
    IF <<s, pattern>> \in DOMAIN LikeTable THEN LikeTable[<<s, pattern>>]
    ELSE like_match(s, pattern)

\* Python truth of filters.get(key): neither None nor "".
truthy(option) == option # None /\ option[1] # ""

like_clause(column, option) ==
    IF truthy(option)
    THEN [where |-> << [column |-> column, op |-> "LIKE"] >>,
          params |-> << "%" \o option[1] \o "%" >>]
    ELSE [where |-> <<>>, params |-> <<>>]

between_clause(from_ym, to_ym) ==
    IF from_ym # None /\ to_ym # None
    THEN [where |-> << [column |-> "year * 100 + month", op |-> "BETWEEN"] >>,
          params |-> << from_ym[1], to_ym[1] >>]
    ELSE [where |-> <<>>, params |-> <<>>]

_build_filters(filters) ==
    LET clauses == << like_clause("province", filters.province),
                      like_clause("exam_center", filters.exam_center),
                      like_clause("driving_school_name", filters.driving_school),
                      like_clause("exam_type", filters.exam_type),
                      like_clause("permit_name", filters.permit),
                      between_clause(filters.from_ym, filters.to_ym) >>
    IN  [where |-> clauses[1].where \o clauses[2].where \o clauses[3].where
                     \o clauses[4].where \o clauses[5].where \o clauses[6].where,
         params |-> clauses[1].params \o clauses[2].params \o clauses[3].params
                     \o clauses[4].params \o clauses[5].params \o clauses[6].params]

\* BETWEEN taken without its bounds.
clause_holds_exclusive(clause, params, rec) ==
    IF clause.op = "LIKE" THEN like(rec[clause.column], params[1])
    ELSE params[1] < rec.year * 100 + rec.month /\ rec.year * 100 + rec.month < params[2]

\* One clause of the WHERE list on one row, with its parameters in front of params.
clause_holds(clause, params, rec) ==
    IF clause.op = "LIKE" THEN like(rec[clause.column], params[1])
    ELSE params[1] <= rec.year * 100 + rec.month /\ rec.year * 100 + rec.month <= params[2]

clause_arity(clause) == IF clause.op = "LIKE" THEN 1 ELSE 2

\* " AND ".join(where)
RECURSIVE where_holds(_, _, _)
where_holds(where, params, rec) ==
    IF where = <<>> THEN TRUE
    ELSE /\ clause_holds(Head(where), params, rec)
         /\ where_holds(Tail(where),
                        SubSeq(params, clause_arity(Head(where)) + 1, Len(params)), rec)

RECURSIVE select_where(_, _, _)
select_where(table, where, params) ==
    IF table = <<>> THEN <<>>
    ELSE (IF where_holds(where, params, Head(table)) THEN <<Head(table)>> ELSE <<>>)
            \o select_where(Tail(table), where, params)

\* The SELECT list of fetch_table.
table_row(rec) ==
    << rec.province, rec.exam_center, rec.driving_school_name, rec.exam_type,
       rec.permit_name, rec.year, rec.month, rec.passed, rec.failed,
       rec.passed + rec.failed >>

RECURSIVE table_rows(_)
table_rows(recs) ==
    IF recs = <<>> THEN <<>> ELSE <<table_row(Head(recs))>> \o table_rows(Tail(recs))

\* ORDER BY year, month, province on the rows of fetch_table: r1 not after r2.
order_le(r1, r2) ==
    \/ r1[6] < r2[6]
    \/ r1[6] = r2[6] /\ r1[7] < r2[7]
    \/ r1[6] = r2[6] /\ r1[7] = r2[7] /\ ~text_lt(r2[1], r1[1])

Orderings(n) == { p \in [1..n -> 1..n] : \A i, j \in 1..n : i # j => p[i] # p[j] }

\* The orders in which ORDER BY may return rows (rows of equal key in any order).
order_by(rows) ==
    { [i \in 1..Len(rows) |-> rows[p[i]]] : p \in
        { q \in Orderings(Len(rows)) :
            \A i \in 1..(Len(rows) - 1) : order_le(rows[q[i]], rows[q[i + 1]]) } }

\* The row lists fetch_table(filters) may return.
fetch_table(table, filters) ==
    LET built == _build_filters(filters)
    IN  order_by(table_rows(select_where(table, built.where, built.params)))

RECURSIVE sum_of(_, _)
sum_of(recs, column) ==
    IF recs = <<>> THEN 0 ELSE Head(recs)[column] + sum_of(Tail(recs), column)

\* The group of a query without GROUP BY: every selected record.
select_type_ungrouped(recs, exam_type) == recs

RECURSIVE select_type(_, _)
select_type(recs, exam_type) ==
    IF recs = <<>> THEN <<>>
    ELSE (IF Head(recs).exam_type = exam_type THEN <<Head(recs)>> ELSE <<>>)
            \o select_type(Tail(recs), exam_type)

\* The texts of a set in ascending order.
RECURSIVE sorted_texts(_)
sorted_texts(S) ==
    IF S = {} THEN <<>>
    ELSE LET least == CHOOSE t \in S : \A u \in S : ~text_lt(u, t)
         IN  <<least>> \o sorted_texts(S \ {least})

RECURSIVE chart_rows(_, _)
chart_rows(recs, types) ==
    IF types = <<>> THEN <<>>
    ELSE << << Head(types), sum_of(select_type(recs, Head(types)), "passed"),
               sum_of(select_type(recs, Head(types)), "failed") >> >>
            \o chart_rows(recs, Tail(types))

\* GROUP BY exam_type ORDER BY exam_type
fetch_chart_data(table, filters) ==
    LET built == _build_filters(filters)
        recs == select_where(table, built.where, built.params)
    IN  chart_rows(recs, sorted_texts({ recs[i].exam_type : i \in 1..Len(recs) }))

RECURSIVE sorted_ints(_)
sorted_ints(S) ==
    IF S = {} THEN <<>>
    ELSE LET least == CHOOSE t \in S : \A u \in S : t <= u
         IN  <<least>> \o sorted_ints(S \ {least})

\* SELECT DISTINCT year ... ORDER BY year
available_years(table) == sorted_ints({ table[i].year : i \in 1..Len(table) })

\* SELECT DISTINCT column ... WHERE column != '' ORDER BY column
distinct_values(table, column) ==
    sorted_texts({ table[i][column] : i \in 1..Len(table) } \ {""})

(***************************************************************************)
(* main_window_ui.py: the filters of the main window.                      *)
(***************************************************************************)
\* "All" taken as a text to search.
_value_or_none_all_kept(text) ==
    IF strip(text) = "" THEN None ELSE Some(strip(text))

_value_or_none(text) ==
    LET value == strip(text)
    IN  IF value = "All" \/ value = "" THEN None ELSE Some(value)

\* combos: the current text of the nine combo boxes (years and months as numbers).
_filters(combos) ==
    [province |-> _value_or_none(combos.province),
     exam_center |-> _value_or_none(combos.exam_center),
     driving_school |-> _value_or_none(combos.driving_school),
     exam_type |-> _value_or_none(combos.exam_type),
     permit |-> _value_or_none(combos.permit),
     from_ym |-> Some(combos.from_year * 100 + combos.from_month),
     to_ym |-> Some(combos.to_year * 100 + combos.to_month)]

(***************************************************************************)
(* Inputs of the read operations.                                          *)
(***************************************************************************)
TextKeys == {"province", "exam_center", "driving_school", "exam_type", "permit"}

OptionValues == { Some(v) : v \in FilterTexts }

PeriodOptions ==
    { <<None, None>>, <<Some(202301), None>>, <<Some(202301), Some(202301)>>,
      <<Some(202302), Some(202312)>> }

OneOption == { [NoFilters EXCEPT ![k] = v] : k \in TextKeys, v \in OptionValues }

TwoOptions ==
    { [NoFilters EXCEPT !.province = p, !.exam_type = t] :
        p \in {Some("mad"), Some("All")}, t \in {Some("teor"), Some("")} }

FilterSet ==
    OneOption \cup
    { [f EXCEPT !.from_ym = p[1], !.to_ym = p[2]] :
        f \in TwoOptions \cup {NoFilters}, p \in PeriodOptions }

AllCombos ==
    [province |-> "All", exam_center |-> "All", driving_school |-> "All",
     exam_type |-> "All", permit |-> "All",
     from_year |-> 2020, from_month |-> 1, to_year |-> 2020, to_month |-> 12]

\* The years offered by comboFromYear and comboToYear.
combo_years(table) ==
    IF available_years(table) = <<>> THEN {2020}
    ELSE { available_years(table)[i] : i \in 1..Len(available_years(table)) }

ComboSet(table) ==
    { [AllCombos EXCEPT !.province = p, !.exam_type = t, !.from_year = y, !.to_year = y,
                        !.from_month = m[1], !.to_month = m[2]] :
        p \in {"All", " ", " mad "}, t \in {"All", "", "teor"},
        y \in combo_years(table), m \in {<<1, 12>>, <<2, 12>>, <<1, 1>>} }

\* The call that has run last, until Return: its operation, its arguments
\* (file, filters, combos, column) and its outcome (error raised, rows and
\* periods returned, count returned).  The program is single-threaded and the
\* outcome of a call is shown in a modal dialog: a call starts when none is on
\* record; import_csv of the file just imported may follow at once.
NoCall ==
    [op |-> "none", file |-> <<>>, filters |-> NoFilters, combos |-> AllCombos,
     column |-> "", error |-> "", rows |-> <<>>, periods |-> {}, count |-> 0]

Init ==
    /\ exams = <<>>
    /\ ledger = EmptyBag
    /\ last = NoCall

Idle == last = NoCall

Return ==
    /\ ~Idle
    /\ last' = NoCall
    /\ UNCHANGED <<exams, ledger>>

ImportMayStart(f) == Idle \/ (last.op = "import_csv" /\ last.file = f)

\* The files of F that import_csv may be called with now.
Startable(F) ==
    IF Idle THEN F
    ELSE IF last.op = "import_csv" THEN {last.file} \cap F
    ELSE {}

\* parse_rows(path) called on its own.
ParseRows(f) ==
    /\ Idle
    /\ last' = [NoCall EXCEPT !.op = "parse_rows", !.file = f,
                              !.error = ParseTable[f].error,
                              !.rows = ParseTable[f].rows,
                              !.periods = ParseTable[f].periods]
    /\ UNCHANGED <<exams, ledger>>

\* import_csv(path, db) that raises: parse_rows failed, no parsed row, or no
\* row to insert.
ImportCsvError(f) ==
    LET parsed == ParseTable[f]
        to_insert == select_rows(parsed.rows, ledger)
    IN  /\ ImportMayStart(f)
        /\ parsed.error # "" \/ parsed.rows = <<>> \/ to_insert = <<>>
        /\ last' = [NoCall EXCEPT !.op = "import_csv", !.file = f,
                                  !.error = IF parsed.error # "" THEN parsed.error
                                            ELSE import_csv_error(parsed.rows, to_insert)]
        /\ UNCHANGED <<exams, ledger>>

\* import_csv(path, db) that returns: insert_rows, then mark_periods_imported.
ImportCsv(f) ==
    LET parsed == ParseTable[f]
        to_insert == select_rows(parsed.rows, ledger)
        imported_periods == periods_of_rows(to_insert)
    IN  /\ ImportMayStart(f)
        /\ parsed.error = ""
        /\ to_insert # <<>>
        /\ Len(exams) + Len(to_insert) <= MaxStored
        /\ exams' = insert_rows(exams, to_insert)
        /\ ledger' = mark_periods_imported(ledger, imported_periods)
        /\ last' = [NoCall EXCEPT !.op = "import_csv", !.file = f, !.rows = to_insert,
                                  !.periods = imported_periods,
                                  !.count = Len(to_insert)]

\* import_csv(path, db) cut short between the commit of insert_rows and the
\* commit of mark_periods_imported (the process is killed, or
\* mark_periods_imported raises sqlite3.Error).
ImportCsvInterrupted(f) ==
    LET parsed == ParseTable[f]
        to_insert == select_rows(parsed.rows, ledger)
    IN  /\ ImportMayStart(f)
        /\ parsed.error = ""
        /\ to_insert # <<>>
        /\ Len(exams) + Len(to_insert) <= MaxStored
        /\ exams' = insert_rows(exams, to_insert)
        /\ ledger' = ledger
        /\ last' = [NoCall EXCEPT !.op = "import_csv", !.file = f, !.rows = to_insert,
                                  !.error = Interrupted]

\* fetch_table(filters) called with a filter dictionary.
FetchTable(filters) ==
    /\ Idle
    /\ \E rows \in fetch_table(exams, filters) :
          last' = [NoCall EXCEPT !.op = "fetch_table", !.filters = filters, !.rows = rows]
    /\ UNCHANGED <<exams, ledger>>

\* MainWindow._apply_filters: fetch_table(self._filters()).
ApplyFilters(combos) ==
    /\ Idle
    /\ \E rows \in fetch_table(exams, _filters(combos)) :
          last' = [NoCall EXCEPT !.op = "_apply_filters", !.combos = combos,
                                 !.filters = _filters(combos), !.rows = rows]
    /\ UNCHANGED <<exams, ledger>>

\* fetch_chart_data(filters) called with a filter dictionary.
FetchChartData(filters) ==
    /\ Idle
    /\ last' = [NoCall EXCEPT !.op = "fetch_chart_data", !.filters = filters,
                              !.rows = fetch_chart_data(exams, filters)]
    /\ UNCHANGED <<exams, ledger>>

\* distinct_values(column) and available_years().
DistinctValues(column) ==
    /\ Idle
    /\ last' = [NoCall EXCEPT !.op = "distinct_values", !.column = column,
                              !.rows = distinct_values(exams, column)]
    /\ UNCHANGED <<exams, ledger>>

AvailableYears ==
    /\ Idle
    /\ last' = [NoCall EXCEPT !.op = "available_years", !.rows = available_years(exams)]
    /\ UNCHANGED <<exams, ledger>>

Next ==
    \/ \E f \in Startable(ImportFiles) : ImportCsvError(f)
    \/ \E f \in Startable(ImportFiles) : ImportCsv(f)
    \/ \E f \in Startable(ImportFiles) : ImportCsvInterrupted(f)
    \/ Return

Spec == Init /\ [][Next]_vars

\* import_csv in runs where every call runs to its end: it returns or raises
\* one of its two ValueErrors.
NextCrashFree ==
    \/ \E f \in Startable(ImportFiles) : ImportCsvError(f)
    \/ \E f \in Startable(ImportFiles) : ImportCsv(f)
    \/ Return

SpecCrashFree == Init /\ [][NextCrashFree]_vars

\* mark_periods_imported(periods) called on its own; a second call with the
\* same periods may follow at once.  count is the rowcount of the cursor: the
\* number of rows that the statement has inserted.
MarkPeriods == { <<2023, 1>>, <<2023, 2>>, <<2024, 1>> }

MarkStartable ==
    IF Idle THEN SUBSET MarkPeriods
    ELSE IF last.op = "mark_periods_imported" THEN {last.periods}
    ELSE {}

MarkPeriodsImported(periods) ==
    /\ ledger' = mark_periods_imported(ledger, periods)
    /\ last' = [NoCall EXCEPT !.op = "mark_periods_imported", !.periods = periods,
                              !.count = BagCardinality(ledger') - BagCardinality(ledger)]
    /\ UNCHANGED exams

\* parse_rows, alone and under import_csv, over every input file and an empty
\* store.
NextParse ==
    \/ \E f \in Files : ParseRows(f)
    \/ \E f \in Startable(Files) : ImportCsvError(f)
    \/ Return

SpecParse == Init /\ [][NextParse]_vars

\* The store under imports of files of complete rows and every read operation.
QueryRows == { r \in ImportRows : parse_loop(Header, <<r>>) # <<>> }

QueryFiles == { <<Header>> \o d : d \in RowSeqs(QueryRows) }

FilterColumns ==
    {"province", "exam_center", "driving_school_name", "exam_type", "permit_name"}

NextStore ==
    \/ \E f \in QueryFiles : ParseRows(f)
    \/ \E f \in Startable(QueryFiles) : ImportCsvError(f)
    \/ \E f \in Startable(QueryFiles) : ImportCsv(f)
    \/ \E f \in Startable(QueryFiles) : ImportCsvInterrupted(f)
    \/ \E filters \in FilterSet : FetchTable(filters)
    \/ \E combos \in ComboSet(exams) : ApplyFilters(combos)
    \/ \E filters \in FilterSet : FetchChartData(filters)
    \/ \E column \in FilterColumns : DistinctValues(column)
    \/ AvailableYears
    \/ Return

SpecStore == Init /\ [][NextStore]_vars

\* The ledger under imports and under mark_periods_imported called with any
\* set of periods, marked or not.
NextLedger ==
    \/ \E f \in Startable(QueryFiles) : ImportCsvError(f)
    \/ \E f \in Startable(QueryFiles) : ImportCsv(f)
    \/ \E f \in Startable(QueryFiles) : ImportCsvInterrupted(f)
    \/ \E periods \in MarkStartable : MarkPeriodsImported(periods)
    \/ Return

SpecLedger == Init /\ [][NextLedger]_vars

(***************************************************************************)
(* Properties.                                                             *)
(***************************************************************************)
StoredPeriods == { <<exams[i].year, exams[i].month>> : i \in 1..Len(exams) }

LedgerPeriods == BagToSet(ledger)

ImportReturned == last.op = "import_csv" /\ last.error = ""

\* C1: after every import call, interrupted or not, the periods that have
\* records in driving_exams are exactly the periods of imported_periods.
C1_InsertAndMarkAtomic == StoredPeriods = LedgerPeriods

\* C2: no step inserts a record of a period that imported_periods holds
\* before the step.
C2_NoInsertIntoMarkedPeriod ==
    [][\A i \in (Len(exams) + 1)..Len(exams') :
          ~BagIn(<<exams'[i].year, exams'[i].month>>, ledger)]_vars

\* An import returned after it had skipped a period of its file that was marked.
C2_Witness ==
    /\ ImportReturned
    /\ \E p \in ParseTable[last.file].periods : p \notin last.periods /\ BagIn(p, ledger)

\* C3: an import of the file whose import has just returned raises "All
\* periods in this file were already imported", returns no count and leaves
\* both tables as they were.
C3_SecondImportIsRejected ==
    [][(ImportReturned /\ last'.op = "import_csv" /\ last'.file = last.file)
          => /\ last'.error = AllImported
             /\ last'.count = 0
             /\ exams' = exams
             /\ ledger' = ledger]_vars

\* The import of a file was rejected while driving_exams holds the records of
\* that file and nothing else.
C3_Witness ==
    /\ last.op = "import_csv"
    /\ last.error = AllImported
    /\ exams = to_records(ParseTable[last.file].rows)

\* The parsed rows of file f whose period is not in imported_periods.
FreshRows(f, periods_table) ==
    SelectSeq(ParseTable[f].rows, LAMBDA t : <<t[7], t[6]>> \notin BagToSet(periods_table))

\* C4: every import appends exactly the parsed rows whose period is not in
\* imported_periods at the call, in file order; the count it returns is their
\* number, and it raises "already imported" only when there is none.
C4_ImportsExactlyFreshPeriods ==
    [][last'.op = "import_csv"
          => /\ exams' = exams \o to_records(FreshRows(last'.file, ledger))
             /\ last'.error = "" => last'.count = Len(FreshRows(last'.file, ledger))
             /\ last'.error = AllImported => FreshRows(last'.file, ledger) = <<>>]_vars

\* An import returned a count smaller than the number of parsed rows of its
\* file, into a store that held records before.
C4_Witness ==
    /\ ImportReturned
    /\ last.count >= 1
    /\ last.count < Len(ParseTable[last.file].rows)
    /\ Len(exams) > last.count

\* C5: no row of driving_exams has an empty province, an empty exam_center,
\* year 0 or month 0.
C5_StoredRecordsComplete ==
    \A i \in 1..Len(exams) :
        /\ exams[i].province # ""
        /\ exams[i].exam_center # ""
        /\ exams[i].year # 0
        /\ exams[i].month # 0

\* An import returned that had discarded a data row of its file.
C5_Witness ==
    /\ ImportReturned
    /\ last.count >= 1
    /\ \E i \in 2..Len(last.file) :
          Len(last.file[i]) >= 5 /\ (last.file[i][1] = "" \/ last.file[i][3] = "N/D")

\* C6: every row that parse_rows returns has a province, an exam_center, a
\* year above 0 and a month from 1 to 12.
C6_ParsedRecordsInRange ==
    last.op = "parse_rows" =>
        \A i \in 1..Len(last.rows) :
            /\ last.rows[i][1] # ""
            /\ last.rows[i][2] # ""
            /\ last.rows[i][7] > 0
            /\ last.rows[i][6] \in 1..12

NoSurvivor(f) ==
    /\ f # <<>>
    /\ f[1] # <<>>
    /\ \A i \in 1..Len(f) :
          row_too_short(f[i]) \/ row_incomplete(parse_row(normalize_all(f[1]), f[i]))

C8_AppendOnly ==
    [][/\ Len(exams) <= Len(exams')
       /\ SubSeq(exams', 1, Len(exams)) = exams
       /\ \A p \in BagToSet(ledger) : CopiesIn(p, ledger') >= CopiesIn(p, ledger)]_vars

\* A read operation ran on a store that two imports have filled.
C8_Witness ==
    /\ last.op \in {"fetch_table", "fetch_chart_data", "distinct_values", "available_years"}
    /\ Len(exams) >= 2
    /\ Cardinality(BagToSet(ledger)) >= 2

RowCount(rows, x) == Cardinality({ i \in 1..Len(rows) : rows[i] = x })

\* The stored column that a text option of the filter is matched against.
ColumnOf(k) ==
    IF k = "driving_school" THEN "driving_school_name"
    ELSE IF k = "permit" THEN "permit_name"
    ELSE k

\* rec satisfies every active condition of filters.
FilterSatisfied(rec, filters) ==
    /\ \A k \in TextKeys :
          (filters[k] # None /\ filters[k][1] # "")
              => like(rec[ColumnOf(k)], "%" \o filters[k][1] \o "%")
    /\ (filters.from_ym # None /\ filters.to_ym # None)
          => /\ filters.from_ym[1] <= rec.year * 100 + rec.month
             /\ rec.year * 100 + rec.month <= filters.to_ym[1]

\* The row of the table for a stored record, with presented = passed + failed.
Shown(rec) ==
    << rec.province, rec.exam_center, rec.driving_school_name, rec.exam_type,
       rec.permit_name, rec.year, rec.month, rec.passed, rec.failed,
       rec.passed + rec.failed >>

TableReturned == last.op \in {"fetch_table", "_apply_filters"}

\* C9: the rows of fetch_table are, with their multiplicity, the rows of the
\* stored records that satisfy every active condition of the filter (the
\* period condition being from_ym <= year*100+month <= to_ym), each with
\* presented = passed + failed, in the order of (year, month, province).
C9_FetchTableRows ==
    TableReturned =>
        /\ \A x \in { last.rows[i] : i \in 1..Len(last.rows) }
                      \cup { Shown(exams[i]) : i \in 1..Len(exams) } :
              RowCount(last.rows, x) =
                  Cardinality({ i \in 1..Len(exams) :
                      FilterSatisfied(exams[i], last.filters) /\ Shown(exams[i]) = x })
        /\ \A i \in 1..(Len(last.rows) - 1) :
              LET a == last.rows[i]
                  b == last.rows[i + 1]
              IN  \/ a[6] < b[6]
                  \/ a[6] = b[6] /\ a[7] < b[7]
                  \/ a[6] = b[6] /\ a[7] = b[7] /\ (a[1] = b[1] \/ text_lt(a[1], b[1]))

\* fetch_table ran with a province text and a period range and returned some
\* of the stored records, not all.
C9_Witness ==
    /\ last.op = "fetch_table"
    /\ truthy(last.filters.province)
    /\ last.filters.from_ym # None /\ last.filters.to_ym # None
    /\ Len(last.rows) >= 1
    /\ Len(last.rows) < Len(exams)

\* filters without the text options whose value is in skipped.
WithoutOptions(filters, skipped) ==
    [k \in DOMAIN filters |->
        IF k \in TextKeys /\ filters[k] # None /\ filters[k][1] \in skipped
        THEN None ELSE filters[k]]

\* C10 as claimed: fetch_table and fetch_chart_data return for a filter what
\* they return for it without its text options that are empty or "All".
C10_AllIsNotApplied ==
    /\ last.op = "fetch_table"
          => last.rows \in fetch_table(exams, WithoutOptions(last.filters, {"", "All"}))
    /\ last.op = "fetch_chart_data"
          => last.rows = fetch_chart_data(exams, WithoutOptions(last.filters, {"", "All"}))

\* C10 as amended: fetch_table and fetch_chart_data return for a filter what
\* they return for it without its empty text options; and the rows that the
\* main window fetches are the rows for its filter without every option whose
\* combo text is blank or "All".
C10_EmptyIsNotApplied ==
    /\ last.op = "fetch_table"
          => last.rows \in fetch_table(exams, WithoutOptions(last.filters, {""}))
    /\ last.op = "fetch_chart_data"
          => last.rows = fetch_chart_data(exams, WithoutOptions(last.filters, {""}))
    /\ last.op = "_apply_filters"
          => last.rows \in fetch_table(exams,
                [k \in DOMAIN NoFilters |->
                    IF k \in TextKeys /\ strip(last.combos[k]) \in {"", "All"}
                    THEN None ELSE _filters(last.combos)[k]])

\* The main window fetched rows with a blank province text and "All" as exam
\* type, from a store of records whose province contains "all" and records
\* whose province does not.
C10_Witness ==
    /\ last.op = "_apply_filters"
    /\ last.combos.province = " "
    /\ last.combos.exam_type = "All"
    /\ \E i, j \in 1..Len(exams) :
          like(exams[i].province, "%All%") /\ ~like(exams[j].province, "%All%")
    /\ Len(last.rows) >= 2

\* The sum of a column over the stored records at the positions of I.
RECURSIVE SumAt(_, _)
SumAt(I, column) ==
    IF I = {} THEN 0
    ELSE LET i == CHOOSE j \in I : TRUE
         IN  exams[i][column] + SumAt(I \ {i}, column)

\* The positions of the stored records that satisfy filters.
Matching(filters) == { i \in 1..Len(exams) : FilterSatisfied(exams[i], filters) }

\* C11: fetch_chart_data returns one row per distinct exam_type of the stored
\* records that satisfy the filter, each row with the sum of passed and the
\* sum of failed over the satisfying records of that exam_type, the rows in
\* strictly ascending order of exam_type; without any filter the satisfying
\* records are all the stored records.
C11_FetchChartDataSums ==
    last.op = "fetch_chart_data" =>
        LET M == Matching(last.filters)
            types == { exams[i].exam_type : i \in M }
            OfType(t) == { i \in M : exams[i].exam_type = t }
        IN  /\ last.filters = NoFilters => M = 1..Len(exams)
            /\ Len(last.rows) = Cardinality(types)
            /\ \A k \in 1..Len(last.rows) :
                  /\ last.rows[k][1] \in types
                  /\ last.rows[k][2] = SumAt(OfType(last.rows[k][1]), "passed")
                  /\ last.rows[k][3] = SumAt(OfType(last.rows[k][1]), "failed")
            /\ \A k \in 1..(Len(last.rows) - 1) :
                  text_lt(last.rows[k][1], last.rows[k + 1][1])

\* fetch_chart_data ran without any filter over records of two exam types,
\* two of the records of one type, and returned the two sums.
C11_Witness ==
    /\ last.op = "fetch_chart_data"
    /\ last.filters = NoFilters
    /\ Len(last.rows) = 2
    /\ Len(exams) = 3
    /\ last.rows[2][2] = 1237

\* The positions of the count fields in a parsed row: passed, passed_1conv,
\* passed_2conv, passed_3or4conv, passed_5plus, failed.
CountFields == 10..15

\* C12: every count field of every row that parse_rows returns is an integer
\* of at least 0.
C12_CountsNonNegative ==
    last.op = "parse_rows" =>
        \A i \in 1..Len(last.rows) :
            \A k \in CountFields : last.rows[i][k] \in Nat

\* C13: mark_periods_imported(periods) raises nothing, leaves every period
\* that is in the ledger as it is, leaves each period of periods in the
\* ledger exactly once, adds no other period and touches no exam record; and
\* a second call with the same periods leaves the ledger as the first call
\* left it.
C13_MarkIsIdempotent ==
    [][last'.op = "mark_periods_imported" =>
          /\ last'.error = ""
          /\ \A p \in BagToSet(ledger) : CopiesIn(p, ledger') = CopiesIn(p, ledger)
          /\ \A p \in last'.periods : CopiesIn(p, ledger') = 1
          /\ BagToSet(ledger') = BagToSet(ledger) \cup last'.periods
          /\ (last.op = "mark_periods_imported" /\ last.periods = last'.periods)
                => ledger' = ledger
          /\ exams' = exams]_vars

\* mark_periods_imported ran with three periods of which it inserted one: two
\* were in the ledger already, one of them the period of stored records.
C13_Witness ==
    /\ last.op = "mark_periods_imported"
    /\ Cardinality(last.periods) = 3
    /\ last.count = 1
    /\ StoredPeriods \cap last.periods # {}

\* The periods of the records that the step has appended to driving_exams.
InsertedPeriods ==
    { <<exams'[i].year, exams'[i].month>> : i \in (Len(exams) + 1)..Len(exams') }

\* C14: in runs where every import call runs to its end, the periods of the
\* ledger are at every moment the periods of the stored records, each once;
\* and every call adds to the ledger exactly the periods of the records it
\* inserts, none of which the ledger held, and removes no entry.
C14_LedgerMatchesRecords ==
    /\ [](LedgerPeriods = StoredPeriods /\ \A p \in LedgerPeriods : CopiesIn(p, ledger) = 1)
    /\ [][/\ BagToSet(ledger') \ BagToSet(ledger) = InsertedPeriods
          /\ InsertedPeriods \cap BagToSet(ledger) = {}
          /\ BagToSet(ledger) \subseteq BagToSet(ledger')
          /\ SubSeq(exams', 1, Len(exams)) = exams]_vars

\* An import returned after it had skipped rows of a period imported by an
\* earlier call: the ledger holds two periods, entered by different calls.
C14_Witness ==
    /\ ImportReturned
    /\ last.count >= 1
    /\ last.count < Len(ParseTable[last.file].rows)
    /\ Cardinality(LedgerPeriods) = 2
    /\ Cardinality(last.periods) = 1

\* C15: a call of import_csv that raises "No data rows found in the file"
\* has parsed no row, a call that raises "All periods in this file were
\* already imported" has parsed rows whose periods are all in the ledger, and
\* either call leaves driving_exams and imported_periods as they were.
C15_FailedImportChangesNothing ==
    [][last'.op = "import_csv" =>
          LET rows == ParseTable[last'.file].rows
          IN  /\ last'.error = NoDataRows
                    => rows = <<>> /\ exams' = exams /\ ledger' = ledger
              /\ last'.error = AllImported
                    => /\ rows # <<>>
                       /\ \A i \in 1..Len(rows) : BagIn(<<rows[i][7], rows[i][6]>>, ledger)
                       /\ exams' = exams
                       /\ ledger' = ledger]_vars

\* An import was rejected for a file of two periods that two earlier imports
\* of other files have marked; the store holds the three records of those.
C15_Witness ==
    /\ last.op = "import_csv"
    /\ last.error = AllImported
    /\ Cardinality(ParseTable[last.file].periods) = 2
    /\ Len(exams) = 3
    /\ Len(ParseTable[last.file].rows) = 2
    /\ LedgerPeriods = StoredPeriods

=============================================================================
